---- MODULE Spec2Model ----
(***************************************************************************)
(* Model of src/app.py: the Streamlit script that resolves a Brayton gas   *)
(* cycle and a Rankine steam cycle when "ANALYZE SYSTEM" is pressed.       *)
(*                                                                         *)
(* Units.  Pressures are in hundredths of a bar (1.01 bar = 101),          *)
(* temperatures in K, enthalpies in whole kJ/kg, steam entropies in        *)
(* J/(kg K), mass flows in whole kg/s, efficiencies in percent, steam      *)
(* quality in thousandths.  Division is floor division.                    *)
(*                                                                         *)
(* The property library (pyromat) is not part of the repository.  Its two  *)
(* substances are modelled by what the calls in app.py rely on: an         *)
(* ideal-gas air with h = cp*T and the isentropic relation                  *)
(* T/p^((g-1)/g) = const, valid on a temperature interval, and a           *)
(* water/steam table on a small grid with a saturation dome between the    *)
(* triple and the critical pressure.  A query outside the valid domain     *)
(* raises the library's parameter error.                                   *)
(***************************************************************************)
EXTENDS Integers, Sequences, FiniteSets, TLC

VARIABLES
    in,       \* sidebar widget values read by the run (lines 19-33)
    pc,       \* position of the script inside the button handler
    loc,      \* the run's Python names bound so far: name -> value
    raised,   \* exception type raised inside the try block, or "none"
    ui,       \* elements shown on the page by this run, in order
    xStrict,  \* whether the library rejects a quality outside [0,1]
    memo      \* history: at most one earlier completed run

vars == <<in, pc, loc, raised, ui, xStrict, memo>>

(***************************************************************************)
(* Bounds and program constants                                            *)
(***************************************************************************)
MaxRp == 6          \* largest pressure ratio explored (slider allows 20)

RpMin == 5          \* st.slider("Pressure Ratio (rp)", 5, 20, 10)
m_air == 15         \* m_air = 15.0
t_stack == 450      \* t_stack = 450.0

\* variant: the dome's upper pressure rounded up to 221 bar
p_crit_roundedUp == 221 * 100

p_crit == 22060     \* p_crit = 220.6 bar

(***************************************************************************)
(* Ideal-gas air (pm.get("ig.air"))                                        *)
(***************************************************************************)
AirCp == 1          \* kJ/(kg K)
AirTmin == 200      \* validity interval of the air data, K
AirTmax == 6000
AirPRef == 101      \* pressure at which the table below is 1000

\* (p / 1.01 bar)^((g-1)/g) * 1000 with g = 1.4, at integer ratios 1..20
PkTable ==
    <<1000, 1219, 1369, 1486, 1584, 1669, 1744, 1811, 1873, 1931,
      1984, 2034, 2081, 2125, 2168, 2208, 2247, 2284, 2319, 2354>>

AirPk(p) == PkTable[p \div AirPRef]

AirTOK(T) == AirTmin <= T /\ T <= AirTmax

\* air.h(T=, p=): enthalpy of the ideal gas, independent of pressure
air_h(T, p) == AirCp * T

\* air.s(T=, p=): entropy, carried as its monotone image T / p^((g-1)/g);
\* the script only ever feeds it back to air.T_s
air_s(T, p) == (T * 1000) \div AirPk(p)

\* air.T_s(s=, p=): temperature at entropy s and pressure p
air_T_s(s, p) == (s * AirPk(p)) \div 1000

\* air.T_h(h=, p=): temperature at enthalpy h
air_T_h(h, p) == h \div AirCp

(***************************************************************************)
(* Water / steam (pm.get("mp.H2O"))                                        *)
(***************************************************************************)
PTripleH2O == 1     \* 0.0061 bar, rounded up to the pressure unit
PCritH2O == 22064   \* 220.64 bar
SteamTmin == 273
SteamTmax == 1273
SteamHmin == 0
SteamHmax == 4700

\* saturation-boundary properties on the pressure grid
SatTable ==
    (10   :> [hf |-> 192,  hg |-> 2584, sf |-> 649,  sg |-> 8149, ts |-> 319]) @@
    (100  :> [hf |-> 417,  hg |-> 2675, sf |-> 1303, sg |-> 7359, ts |-> 373]) @@
    (4000 :> [hf |-> 1087, hg |-> 2801, sf |-> 2797, sg |-> 6070, ts |-> 523])

\* superheated properties on the (p, T) grid
SuperTable ==
    (<<4000, 700>> :> [h |-> 3277, s |-> 6861]) @@
    (<<100, 700>>  :> [h |-> 3335, s |-> 8623])

\* saturation properties exist between the triple and the critical pressure
SatOK(p) == PTripleH2O <= p /\ p <= PCritH2O

SuperOK(p, T) == SteamTmin <= T /\ T <= SteamTmax /\ p > 0

\* steam.h(p=, x=) and steam.s(p=, x=): quality-weighted interpolation
\* between the saturated-liquid and saturated-vapour values at p
steam_h_px(p, x) ==
    SatTable[p].hf + (x * (SatTable[p].hg - SatTable[p].hf)) \div 1000

steam_s_px(p, x) ==
    SatTable[p].sf + (x * (SatTable[p].sg - SatTable[p].sf)) \div 1000

\* whether steam.h(p=, x=) accepts the quality it is given
QualityOK(x, strict) == (~strict) \/ (0 <= x /\ x <= 1000)

steam_h_pT(p, T) == SuperTable[<<p, T>>].h

steam_s_pT(p, T) == SuperTable[<<p, T>>].s

\* steam.x(s=, p=): quality under the dome, the library's -1 outside it
steam_x_sp(s, p) ==
    IF SatTable[p].sf <= s /\ s <= SatTable[p].sg
    THEN ((s - SatTable[p].sf) * 1000) \div (SatTable[p].sg - SatTable[p].sf)
    ELSE -1000

SteamHOK(h) == SteamHmin <= h /\ h <= SteamHmax

\* steam.s(h=, p=): entropy at enthalpy h and pressure p
steam_s_hp(h, p) ==
    LET sat == SatTable[p] IN
    IF h < sat.hf THEN sat.sf - ((sat.hf - h) * 1000) \div sat.ts
    ELSE IF h > sat.hg THEN sat.sg + ((h - sat.hg) * 1000) \div sat.ts
    ELSE sat.sf + ((((h - sat.hf) * 1000) \div (sat.hg - sat.hf)) * (sat.sg - sat.sf)) \div 1000

(***************************************************************************)
(* The script's own formulas                                               *)
(***************************************************************************)
\* variant: the efficiency multiplies the isentropic compressor work
CompressorActual_multiplied(h1, h2s, eta) == h1 + ((h2s - h1) * eta) \div 100

\* h2 = h1 + (h2s - h1) / eta_c
CompressorActual(h1, h2s, eta) == h1 + ((h2s - h1) * 100) \div eta

\* h4 = h3 - eta_t * (h3 - h4s), used for the gas and the steam turbine
TurbineActual(h3, h4s, eta) == h3 - (eta * (h3 - h4s)) \div 100

\* variant: the fuel mass is left out of the divisor
CombustionMix_airOnly(h2, mf, lhv) == (m_air * h2 + mf * lhv) \div m_air

\* h3 = (m_air * h2 + m_fuel * biogas_lhv) / (m_air + m_fuel)
CombustionMix(h2, mf, lhv) == (m_air * h2 + mf * lhv) \div (m_air + mf)

\* (h3-h4)-(h2-h1)
GasCycleWork(l) == (l.h3 - l.h4) - (l.h2 - l.h1)

\* h3s-h4s_actual
SteamCycleWork(l) == l.h3s - l.h4s_actual

\* H_gas_total = (m_air + m_fuel) * (h4 - air.h(T=t_stack, p=p4)[0])
WasteHeat(l, mf) == (m_air + mf) * (l.h4 - air_h(t_stack, l.p4))

(***************************************************************************)
(* Widget values                                                           *)
(***************************************************************************)
\* (m_fuel, biogas_lhv): st.number_input accepts any number, negative too
FuelCases ==
    { <<-15, 20000>>, <<-1, 2000>>, <<1, -100>>, <<0, 20000>>,
      <<1, 2000>>, <<1, 20000>>, <<1, 100>>, <<15, 20000>> }

\* (p1, t1)
InletCases == { <<101, 300>>, <<101, 100>> }

\* (eta_c, eta_t_gas, eta_t_steam): the sliders run from 0.7 to 0.95
EffCases == { <<85, 88, 85>>, <<70, 70, 70>>, <<95, 95, 95>> }

\* (p_boiler, t_boiler, p_cond)
SteamCases ==
    { <<4000, 700, 10>>, <<4000, 700, 100>>, <<100, 700, 10>>,
      <<4000, 5000, 10>>, <<4000, 700, 30000>> }

MkInputs(F, I, R, E, S) ==
    { [ biogas_lhv |-> f[2], m_fuel |-> f[1],
        p1 |-> i[1], t1 |-> i[2], rp |-> r,
        eta_c |-> e[1], eta_t_gas |-> e[2],
        p_boiler |-> s[1], t_boiler |-> s[2], p_cond |-> s[3],
        eta_t_steam |-> e[3] ] : f \in F, i \in I, r \in R, e \in E, s \in S }

\* what the sidebar can hold when the button is pressed
Inputs == MkInputs(FuelCases, InletCases, RpMin..MaxRp, EffCases, SteamCases)

\* the widgets' default values (m_fuel 0.5 is carried as 1 kg/s)
DefaultIn ==
    [ biogas_lhv |-> 20000, m_fuel |-> 1, p1 |-> 101, t1 |-> 300, rp |-> 10,
      eta_c |-> 85, eta_t_gas |-> 88, p_boiler |-> 4000, t_boiler |-> 700,
      p_cond |-> 10, eta_t_steam |-> 85 ]

(***************************************************************************)
(* State after the script's first execution: page drawn, button not yet    *)
(* pressed.                                                                *)
(***************************************************************************)
Init ==
    /\ in = DefaultIn
    /\ pc = "idle"
    /\ loc = <<>>
    /\ raised = "none"
    /\ ui = <<>>
    /\ xStrict \in BOOLEAN
    /\ memo = <<>>

El(kind, label, val) == [el |-> kind, label |-> label, val |-> val]

\* an exception leaves the try block: names bound so far stay bound
Raise(kind, l) ==
    /\ loc' = l
    /\ raised' = kind
    /\ pc' = "except"
    /\ UNCHANGED <<in, ui, xStrict, memo>>

Goto(next, l) ==
    /\ loc' = l
    /\ pc' = next
    /\ UNCHANGED <<in, raised, ui, xStrict, memo>>

\* variant: the namespace of the previous run survives the rerun
Press_keepNames(i) ==
    /\ pc \in {"idle", "done"}
    /\ in' = i
    /\ loc' = loc
    /\ raised' = "none"
    /\ ui' = <<>>
    /\ pc' = "state1"
    /\ UNCHANGED xStrict

\* the button is pressed with widget values i: Streamlit reruns the script
\* from the top with an empty page and a fresh namespace
Press(i) ==
    /\ pc \in {"idle", "done"}
    /\ in' = i
    /\ loc' = <<>>
    /\ raised' = "none"
    /\ ui' = <<>>
    /\ pc' = "state1"
    /\ UNCHANGED xStrict

Analyze ==
    \E i \in Inputs : Press(i) /\ UNCHANGED memo

\* State 1: Inlet
State1 ==
    /\ pc = "state1"
    /\ IF ~AirTOK(in.t1)
       THEN Raise("PMParamError", loc)
       ELSE Goto("state2",
                 ("s1" :> air_s(in.t1, in.p1)) @@ ("h1" :> air_h(in.t1, in.p1)) @@ loc)

\* State 2: Compressor Exit
State2 ==
    /\ pc = "state2"
    /\ LET p2  == in.p1 * in.rp
           s2s == loc.s1
           t2s == air_T_s(s2s, p2)
           h2s == air_h(t2s, p2)
           h2  == CompressorActual(loc.h1, h2s, in.eta_c)
           t2  == air_T_h(h2, p2)
           l1  == ("p2" :> p2) @@ ("s2s" :> s2s) @@ loc
           l2  == ("t2s" :> t2s) @@ ("h2s" :> h2s) @@ ("h2" :> h2) @@ l1
       IN  IF ~AirTOK(t2s) THEN Raise("PMParamError", l1)
           ELSE IF ~AirTOK(t2) THEN Raise("PMParamError", l2)
           ELSE Goto("state3", ("t2" :> t2) @@ l2)

\* State 3: Combustion
State3 ==
    /\ pc = "state3"
    /\ LET l1 == ("m_air" :> m_air) @@ loc
           h3 == CombustionMix(loc.h2, in.m_fuel, in.biogas_lhv)
           p3 == loc.p2
           t3 == air_T_h(h3, p3)
           l2 == ("h3" :> h3) @@ ("p3" :> p3) @@ l1
       IN  IF m_air + in.m_fuel = 0 THEN Raise("ZeroDivisionError", l1)
           ELSE IF ~AirTOK(t3) THEN Raise("PMParamError", l2)
           ELSE Goto("state4", ("t3" :> t3) @@ l2)

\* State 4: Turbine Exit
State4 ==
    /\ pc = "state4"
    /\ LET p4  == in.p1
           s3  == air_s(loc.t3, loc.p3)
           t4s == air_T_s(s3, p4)
           h4s == air_h(t4s, p4)
           h4  == TurbineActual(loc.h3, h4s, in.eta_t_gas)
           t4  == air_T_h(h4, p4)
           l1  == ("p4" :> p4) @@ ("s3" :> s3) @@ loc
           l2  == ("t4s" :> t4s) @@ ("h4s" :> h4s) @@ ("h4" :> h4) @@ l1
       IN  IF ~AirTOK(t4s) THEN Raise("PMParamError", l1)
           ELSE IF ~AirTOK(t4) THEN Raise("PMParamError", l2)
           ELSE Goto("steam1", ("t4" :> t4) @@ l2)

\* State 1s: Pump Inlet (Saturated Liquid)
Steam1 ==
    /\ pc = "steam1"
    /\ IF ~SatOK(in.p_cond)
       THEN Raise("PMParamError", loc)
       ELSE Goto("steam3",
                 ("h1s" :> steam_h_px(in.p_cond, 0)) @@
                 ("s1s" :> steam_s_px(in.p_cond, 0)) @@ loc)

\* variant: the boiler exit enthalpy is raised by recovered exhaust heat
Steam3_heatRecovery ==
    /\ pc = "steam3"
    /\ IF ~SuperOK(in.p_boiler, in.t_boiler)
       THEN Raise("PMParamError", loc)
       ELSE Goto("steam4",
                 ("h3s" :> steam_h_pT(in.p_boiler, in.t_boiler) + loc.h4 \div 10) @@
                 ("s3s" :> steam_s_pT(in.p_boiler, in.t_boiler)) @@ loc)

\* State 3s: Boiler Exit (Superheated Steam)
Steam3 ==
    /\ pc = "steam3"
    /\ IF ~SuperOK(in.p_boiler, in.t_boiler)
       THEN Raise("PMParamError", loc)
       ELSE Goto("steam4",
                 ("h3s" :> steam_h_pT(in.p_boiler, in.t_boiler)) @@
                 ("s3s" :> steam_s_pT(in.p_boiler, in.t_boiler)) @@ loc)

\* State 4s: Turbine Exit (Isentropic Expansion)
Steam4 ==
    /\ pc = "steam4"
    /\ LET s4s_ideal  == loc.s3s
           x4s        == steam_x_sp(s4s_ideal, in.p_cond)
           h4s_ideal  == steam_h_px(in.p_cond, x4s)
           h4s_actual == TurbineActual(loc.h3s, h4s_ideal, in.eta_t_steam)
           s4s_actual == steam_s_hp(h4s_actual, in.p_cond)
           l1 == ("s4s_ideal" :> s4s_ideal) @@ ("x4s" :> x4s) @@ loc
           l2 == ("h4s_ideal" :> h4s_ideal) @@ ("h4s_actual" :> h4s_actual) @@ l1
       IN  IF ~QualityOK(x4s, xStrict) THEN Raise("PMParamError", l1)
           ELSE IF ~SteamHOK(h4s_actual) THEN Raise("PMParamError", l2)
           ELSE Goto("display", ("s4s_actual" :> s4s_actual) @@ l2)

\* RESULTS DISPLAY
Display ==
    /\ pc = "display"
    /\ ui' = ui \o << El("header", "Performance Results", 0),
                      El("metric", "Gas Cycle Work", GasCycleWork(loc)),
                      El("metric", "Steam Cycle Work", SteamCycleWork(loc)) >>
    /\ pc' = "chart_hs"
    /\ UNCHANGED <<in, loc, raised, xStrict, memo>>

\* h-s Chart (Steam Cycle): the vapour dome is sampled at 50 pressures
\* spaced from p_cond to p_crit, so every sample lies between the two
ChartHS ==
    /\ pc = "chart_hs"
    /\ LET sub == Append(ui, El("subheader", "h-s Chart (Steam Cycle)", 0))
           l1  == ("p_crit" :> p_crit) @@ loc
       IN  IF ~(SatOK(in.p_cond) /\ SatOK(p_crit))
           THEN /\ ui' = sub
                /\ loc' = l1
                /\ raised' = "PMParamError"
                /\ pc' = "except"
           ELSE /\ ui' = Append(sub, El("pyplot", "fig_hs", 0))
                /\ loc' = l1
                /\ raised' = raised
                /\ pc' = "chart_th"
    /\ UNCHANGED <<in, xStrict, memo>>

\* T-H Chart (Process Heat)
ChartTH ==
    /\ pc = "chart_th"
    /\ LET sub == Append(ui, El("subheader", "T-H Chart (Process Heat)", 0))
           l1  == ("t_stack" :> t_stack) @@ loc
           H   == WasteHeat(loc, in.m_fuel)
       IN  IF ~AirTOK(t_stack)
           THEN /\ ui' = sub
                /\ loc' = l1
                /\ raised' = "PMParamError"
                /\ pc' = "except"
           ELSE /\ ui' = Append(sub, El("pyplot", "fig_th", H))
                /\ loc' = ("H_gas_total" :> H) @@ l1
                /\ raised' = raised
                /\ pc' = "success"
    /\ UNCHANGED <<in, xStrict, memo>>

\* st.success(...)
Success ==
    /\ pc = "success"
    /\ ui' = Append(ui, El("success", "Analysis Complete. Ready for submission to Energhx.", 0))
    /\ pc' = "done"
    /\ UNCHANGED <<in, loc, raised, xStrict, memo>>

\* except Exception as e: st.error(f"Thermodynamic Error: {e}")
Except ==
    /\ pc = "except"
    /\ ui' = Append(ui, El("error", "Thermodynamic Error", 0))
    /\ pc' = "done"
    /\ UNCHANGED <<in, loc, raised, xStrict, memo>>

Steps ==
    \/ State1 \/ State2 \/ State3 \/ State4
    \/ Steam1 \/ Steam3 \/ Steam4
    \/ Display \/ ChartHS \/ ChartTH \/ Success \/ Except

Next == Analyze \/ Steps

Spec == Init /\ [][Next]_vars

(***************************************************************************)
(* Runs observed in pairs: one earlier completed run is remembered, with   *)
(* whether a run with other widget values came after it.                   *)
(***************************************************************************)
PairFuelCases == { <<1, 20000>>, <<0, 20000>>, <<15, 20000>>, <<1, 2000>> }

PairSteamCases == { <<4000, 700, 10>>, <<100, 700, 10>>, <<4000, 700, 30000>> }

PairInputs ==
    MkInputs(PairFuelCases, { <<101, 300>> }, RpMin..MaxRp,
             { <<85, 88, 85>>, <<70, 70, 70>> }, PairSteamCases)

Remember ==
    <<[in |-> in, loc |-> loc, raised |-> raised, ui |-> ui, other |-> FALSE]>>

AnalyzePair ==
    \E i \in PairInputs, take \in BOOLEAN :
        /\ Press(i)
        /\ memo' = IF pc = "done" /\ take THEN Remember
                   ELSE IF pc = "done" /\ Len(memo) = 1 /\ memo[1].in # in
                        THEN <<[memo[1] EXCEPT !.other = TRUE]>>
                        ELSE memo

NextPair == AnalyzePair \/ Steps

SpecPair == Init /\ [][NextPair]_vars

(***************************************************************************)
(* The efficiency formulas over the whole interval (0,1], beyond what the  *)
(* sliders offer.                                                          *)
(***************************************************************************)
EffWide == EffCases \cup { <<100, 100, 100>>, <<50, 60, 40>> }

WideInputs == MkInputs(FuelCases, InletCases, RpMin..MaxRp, EffWide, SteamCases)

AnalyzeWide ==
    \E i \in WideInputs : Press(i) /\ UNCHANGED memo

NextWide == AnalyzeWide \/ Steps

SpecWide == Init /\ [][NextWide]_vars

(***************************************************************************)
(* Observations                                                            *)
(***************************************************************************)
Has(n) == n \in DOMAIN loc

Shown(kind) == \E k \in 1..Len(ui) : ui[k].el = kind

MetricsShown == Shown("metric")

ErrorShown == Shown("error")

SuccessShown == Shown("success")

\* positions on the page of the elements with a given label
At(u, label) == { k \in 1..Len(u) : u[k].label = label }

\* the failure kinds of the error taxonomy
SpecKinds ==
    {"OutOfDomain", "InvalidInput", "InvalidCycle", "OutOfRange", "ConvergenceError"}

Min2(a, b) == IF a <= b THEN a ELSE b

Max2(a, b) == IF a >= b THEN a ELSE b

(***************************************************************************)
(* Claims                                                                  *)
(***************************************************************************)
\* the fuel inputs are in the range the interface promises
ValidFuel == in.m_fuel >= 0 /\ in.biogas_lhv >= 0

\* the combustion step has been reached and has acted
MixingDone == Has("t2") /\ pc # "state3"

\* C1: a run whose fuel mass flow or fuel LHV is negative fails in the
\* mixing step with InvalidInput, before h3 is computed, and shows no
\* gas-cycle or steam-cycle work.
C1_RejectsBadFuel ==
    (MixingDone /\ ~ValidFuel)
        => (raised = "InvalidInput" /\ ~Has("h3") /\ ~MetricsShown)

\* C2: a run (with fuel inputs in range) shows a gas-cycle work only if
\* rp > 1 and T3 is strictly above T2; otherwise it has failed with
\* InvalidCycle and shows none.
C2_RequiresValidCycle ==
    (ValidFuel /\ MetricsShown) => (in.rp > 1 /\ loc.t3 > loc.t2)

InDome(s, p) == SatTable[p].sf <= s /\ s <= SatTable[p].sg

\* C3: once the steam turbine's isentropic exit has been resolved, an exit
\* entropy inside [s_f, s_g] gives a quality in [0,1] and an h4s that is the
\* quality-weighted interpolation; an exit entropy outside [s_f, s_g] makes
\* the run fail with OutOfRange and no quality outside [0,1] exists in the
\* run (fuel inputs in range).
C3_QualityLaw ==
    (ValidFuel /\ Has("s4s_ideal") /\ pc # "steam4") =>
        /\ InDome(loc.s4s_ideal, in.p_cond) =>
              /\ 0 <= loc.x4s /\ loc.x4s <= 1000
              /\ Has("h4s_ideal") =>
                    loc.h4s_ideal = SatTable[in.p_cond].hf +
                        (loc.x4s * (SatTable[in.p_cond].hg - SatTable[in.p_cond].hf)) \div 1000
        /\ ~InDome(loc.s4s_ideal, in.p_cond) =>
              /\ raised = "OutOfRange"
              /\ ~(Has("x4s") /\ (loc.x4s < 0 \/ loc.x4s > 1000))
              /\ ~Has("h4s_ideal")

\* C4: a run with rp > 1, T3 > T2 and efficiencies in (0,1] (fuel inputs in
\* range) that shows its gas-cycle work shows a work strictly between 0 and
\* the heat input h3-h2.
C4_EfficiencyInUnitInterval ==
    (ValidFuel /\ MetricsShown /\ in.rp > 1 /\ loc.t3 > loc.t2
        /\ in.eta_c \in 1..100 /\ in.eta_t_gas \in 1..100)
        => (0 < GasCycleWork(loc) /\ GasCycleWork(loc) < loc.h3 - loc.h2)

\* C5: a run (fuel inputs in range) in which a step failed ends with the
\* failure handed on under one of the taxonomy's kinds, and without the
\* failure having been turned into text on the page.
C5_FailureSurfacedWhole ==
    (ValidFuel /\ pc = "done" /\ raised # "none") => (raised \in SpecKinds /\ ~ErrorShown)

\* C6: a completed run with the same widget values as a remembered earlier
\* run ends with the same state points, the same page and the same failure,
\* whatever was run in between.
C6_Deterministic ==
    (pc = "done" /\ Len(memo) = 1 /\ memo[1].in = in)
        => (memo[1].loc = loc /\ memo[1].ui = ui /\ memo[1].raised = raised)

C6_Witness ==
    /\ pc = "done" /\ Len(memo) = 1 /\ memo[1].in = in /\ memo[1].other
    /\ raised = "none" /\ MetricsShown

SteamIn(i) == <<i.p_boiler, i.t_boiler, i.p_cond, i.eta_t_steam>>

SteamNames ==
    {"h1s", "s1s", "h3s", "s3s", "x4s", "h4s_ideal", "h4s_actual", "s4s_actual"}

\* the steam-cycle state points a run has computed, and the work it shows
SteamView(l) == [n \in SteamNames \cap DOMAIN l |-> l[n]]

SteamWorkShown(u) == { u[k].val : k \in At(u, "Steam Cycle Work") }

SameSteam ==
    /\ SteamView(memo[1].loc) = SteamView(loc)
    /\ SteamWorkShown(memo[1].ui) = SteamWorkShown(ui)

\* C7 as stated: two completed runs that agree on p_boiler, T_boiler,
\* p_cond and the steam turbine efficiency have equal steam state points and
\* steam work, whatever their gas-cycle inputs.
C7_SteamDependsOnlyOnSteamInputs ==
    (pc = "done" /\ Len(memo) = 1 /\ SteamIn(memo[1].in) = SteamIn(in))
        => SameSteam

\* C7 as amended: two completed runs that agree on p_boiler, T_boiler,
\* p_cond and the steam turbine efficiency, and whose gas-cycle steps both
\* completed, have equal steam state points and steam work, whatever their
\* gas-cycle inputs.
C7_SteamDecoupledOnceReached ==
    (pc = "done" /\ Len(memo) = 1 /\ SteamIn(memo[1].in) = SteamIn(in)
        /\ "t4" \in DOMAIN memo[1].loc /\ Has("t4"))
        => SameSteam

C7_Witness ==
    /\ pc = "done" /\ Len(memo) = 1 /\ SteamIn(memo[1].in) = SteamIn(in)
    /\ "t4" \in DOMAIN memo[1].loc /\ Has("t4")
    /\ memo[1].loc.h4 # loc.h4
    /\ memo[1].in.m_fuel # in.m_fuel
    /\ Has("s4s_actual") /\ SteamWorkShown(ui) # {}

\* quotient q is num / den rounded down to the unit
IsQuotient(q, num, den) == q * den <= num /\ num < (q + 1) * den

\* C8: with h2s >= h1 the compressor's actual work (h2s-h1)/eta_c is at
\* least the isentropic work; with h4s <= h3 each turbine's actual work
\* eta*(h3-h4s) is at most the isentropic work, so h4s <= h4 <= h3; at an
\* efficiency of exactly 1 the actual state is the isentropic state.
C8_EfficiencyDirection ==
    /\ (Has("h2") /\ loc.h2s >= loc.h1) =>
          /\ IsQuotient(loc.h2 - loc.h1, (loc.h2s - loc.h1) * 100, in.eta_c)
          /\ loc.h2 - loc.h1 >= loc.h2s - loc.h1
          /\ in.eta_c = 100 => loc.h2 = loc.h2s
    /\ (Has("h4") /\ loc.h4s <= loc.h3) =>
          /\ IsQuotient(loc.h3 - loc.h4, in.eta_t_gas * (loc.h3 - loc.h4s), 100)
          /\ loc.h4s <= loc.h4 /\ loc.h4 <= loc.h3
          /\ in.eta_t_gas = 100 => loc.h4 = loc.h4s
    /\ (Has("h4s_actual") /\ loc.h4s_ideal <= loc.h3s) =>
          /\ IsQuotient(loc.h3s - loc.h4s_actual,
                        in.eta_t_steam * (loc.h3s - loc.h4s_ideal), 100)
          /\ loc.h4s_ideal <= loc.h4s_actual /\ loc.h4s_actual <= loc.h3s
          /\ in.eta_t_steam = 100 => loc.h4s_actual = loc.h4s_ideal

C8_Witness ==
    /\ Has("h4s_actual")
    /\ in.eta_c = 100 /\ in.eta_t_gas = 100 /\ in.eta_t_steam = 100
    /\ loc.h2s > loc.h1 /\ loc.h4s < loc.h3 /\ loc.h4s_ideal < loc.h3s
    /\ loc.h2 = loc.h2s /\ loc.h4 = loc.h4s /\ loc.h4s_actual = loc.h4s_ideal

BothCharts(u) == At(u, "fig_hs") # {} /\ At(u, "fig_th") # {}

\* C10: no run shows both the work metrics and the error message; a run
\* that has shown the metrics ends with the success message; and the
\* success message comes after both metrics and both charts.
C10_ResultsExcludeError ==
    /\ ~(MetricsShown /\ ErrorShown)
    /\ (pc = "done" /\ MetricsShown) => SuccessShown
    /\ SuccessShown =>
          /\ At(ui, "Gas Cycle Work") # {} /\ At(ui, "Steam Cycle Work") # {}
          /\ BothCharts(ui)
          /\ \A k \in 1..Len(ui) : ui[k].el # "success" =>
                \A j \in At(ui, "Analysis Complete. Ready for submission to Energhx.") : k < j

C10_Witness ==
    /\ pc = "done" /\ raised = "none"
    /\ MetricsShown /\ BothCharts(ui) /\ SuccessShown /\ ~ErrorShown

====
